---- MODULE Spec2Model ----
(***************************************************************************)
(* Quantification engine of op.py: retention-time boundary resolution,     *)
(* internal-standard (ISTD) location, blank averaging and the blank-       *)
(* corrected concentration formula.                                        *)
(*                                                                         *)
(* Numbers.  The program works on the floats xlrd delivers.  The model     *)
(* uses integers on a grid for retention times and areas (the source only  *)
(* compares, adds and subtracts them), and exact fractions [num, den] for  *)
(* every quotient, so that a division is never rounded and a division by   *)
(* zero is the Python exception it is in the source; round, which acts on  *)
(* the float, is the set of the values it can return.  Lists are Python 2  *)
(* lists (map and zip return lists, the csv file is opened 'wb').          *)
(*                                                                         *)
(* Exceptions.  A Python call either returns a value or raises: a result   *)
(* is a record [tag |-> "ok", val |-> v] or [tag |-> <exception name>].    *)
(***************************************************************************)
EXTENDS Integers, Sequences, FiniteSets, TLC

\* ------------------------------------------------------------------ bounds
MaxPeaks == 2      \* peaks per run
MaxRuns  == 2      \* blank runs per batch

\* ------------------------------------------- fraction cutoffs (opx module)
\* Retention-time cutoffs of the hydrocarbon fractions, on the model's grid.
\* The C6-C10 analysis is a method of its own; the C10-C40 cutoffs ascend.
C6_C10_END    == 2
C10_C16_START == 0
C10_C16_END   == 1
C16_C34_END   == 2
C34_C40_END   == 3
DEF_DECIMAL_PLACES == 2

\* Value grids: retention times from the start of the run to the last cutoff,
\* peak areas, and the ISTD tolerances.
RTs   == 0..C34_C40_END
Areas == 0..1
Tols  == 0..1

\* ------------------------------------------------- tuple layout (opx module)
\* A peak is the 5-tuple (index, start, rt, end, area) zipped at op.py:203;
\* opx names the 0-based positions.  TLA+ tuples are 1-based, hence Field.
PEAK_LS_IDX   == 0
PEAK_LS_START == 1
PEAK_LS_RT    == 2
PEAK_LS_END   == 3
PEAK_LS_AREA  == 4

Field(x, pos) == x[pos + 1]

\* ------------------------------------------------------------ Python helpers
Ok(v)      == [tag |-> "ok", val |-> v]
Raise(exc) == [tag |-> exc]
IsOk(r)    == r.tag = "ok"

Abs(n) == IF n < 0 THEN -n ELSE n

\* Python's builtin sum() over a list of numbers.
RECURSIVE sum(_)
sum(list) == IF list = <<>> THEN 0 ELSE Head(list) + sum(Tail(list))

\* list[low:high] for 0 <= low, 0 <= high: positions low .. high-1 that exist;
\* empty when low >= high.
Slice(list, low, high) ==
    LET hi == IF high < Len(list) THEN high ELSE Len(list)
    IN  IF low >= hi THEN <<>> ELSE SubSeq(list, low + 1, hi)

\* min(list, key=lambda i: i[k]) on a non-empty list of tuples: the FIRST
\* element whose key is minimal (CPython replaces the candidate only on a
\* strictly smaller key).
RECURSIVE MinFrom(_, _, _)
MinFrom(best, rest, k) ==
    IF rest = <<>> THEN best
    ELSE MinFrom(IF Head(rest)[k + 1] < best[k + 1] THEN Head(rest) ELSE best,
                 Tail(rest), k)

\* min(list, key=...): ValueError on an empty list.
min(list, k) ==
    IF list = <<>> THEN Raise("ValueError")
    ELSE Ok(MinFrom(Head(list), Tail(list), k))

\* --------------------------------------------------------------- op.py core
\* [x[PEAK_LS_AREA] for x in list]
RECURSIVE AreasOf(_)
AreasOf(list) ==
    IF list = <<>> THEN <<>>
    ELSE <<Field(Head(list), PEAK_LS_AREA)>> \o AreasOf(Tail(list))

\* Variant: the slice takes high_index in, peak_data_list[low_index:high_index + 1].
sum_areas_inclusive(peak_data_list, low_index, high_index) ==
    sum(AreasOf(Slice(peak_data_list, low_index, high_index + 1)))

sum_areas(peak_data_list, low_index, high_index) ==
    LET areas == AreasOf(Slice(peak_data_list, low_index, high_index))
    IN  sum(areas)

\* [(x[IDX], x[END] - rt_end) for x in list if x[END] - rt_end >= 0]
RECURSIVE EndIndexes(_, _)
EndIndexes(list, rt_end) ==
    IF list = <<>> THEN <<>>
    ELSE LET x == Head(list)
         IN  (IF Field(x, PEAK_LS_END) - rt_end >= 0
              THEN << <<Field(x, PEAK_LS_IDX), Field(x, PEAK_LS_END) - rt_end>> >>
              ELSE <<>>) \o EndIndexes(Tail(list), rt_end)

\* Variant: the first qualifying peak is taken, end_indexes[0], not the minimum.
end_index_first_match(peak_data_list, rt_end) ==
    LET end_indexes == EndIndexes(peak_data_list, rt_end)
    IN  IF end_indexes = <<>> THEN Raise("ValueError") ELSE Ok(end_indexes[1][1])

\* Variant: ValueError is caught as in get_fraction_start_index, end_idx = 1.
end_index_with_fallback(peak_data_list, rt_end) ==
    LET end_tuple == min(EndIndexes(peak_data_list, rt_end), 1)
    IN  IF IsOk(end_tuple) THEN Ok(end_tuple.val[1]) ELSE Ok(1)

get_fraction_end_index(peak_data_list, rt_end) ==
    LET end_indexes == EndIndexes(peak_data_list, rt_end)
        end_tuple   == min(end_indexes, 1)
    IN  IF IsOk(end_tuple) THEN Ok(end_tuple.val[1]) ELSE end_tuple

\* [(x[IDX], abs(x[START] - rt_start)) for x in list if x[START] - rt_start <= 0]
RECURSIVE StartIndexes(_, _)
StartIndexes(list, rt_start) ==
    IF list = <<>> THEN <<>>
    ELSE LET x == Head(list)
         IN  (IF Field(x, PEAK_LS_START) - rt_start <= 0
              THEN << <<Field(x, PEAK_LS_IDX), Abs(Field(x, PEAK_LS_START) - rt_start)>> >>
              ELSE <<>>) \o StartIndexes(Tail(list), rt_start)

\* Variant: no except clause, the ValueError of min() propagates.
start_index_unguarded(peak_data_list, rt_start) ==
    LET start_tuple == min(StartIndexes(peak_data_list, rt_start), 1)
    IN  IF IsOk(start_tuple) THEN Ok(start_tuple.val[1]) ELSE start_tuple

get_fraction_start_index(peak_data_list, rt_start) ==
    LET start_indexes == StartIndexes(peak_data_list, rt_start)
        start_tuple   == min(start_indexes, 1)
    IN  IF IsOk(start_tuple) THEN Ok(start_tuple.val[1])
        ELSE Ok(1)   \* except ValueError: start_idx = 1

\* [(abs(p[0] - istd_rt), p[1]) for p in list]
RECURSIVE RelativeRt(_, _)
RelativeRt(list, istd_rt) ==
    IF list = <<>> THEN <<>>
    ELSE << <<Abs(Head(list)[1] - istd_rt), Head(list)[2]>> >> \o RelativeRt(Tail(list), istd_rt)

\* [(x[RT], x[AREA]) for x in list
\*    if istd_rt_low <= x[RT] <= istd_rt_high and lower_limit <= x[AREA] <= upper_limit]
RECURSIVE IstdPeakList(_, _, _, _, _)
IstdPeakList(list, istd_rt_low, istd_rt_high, lower_limit, upper_limit) ==
    IF list = <<>> THEN <<>>
    ELSE LET x == Head(list)
         IN  (IF /\ istd_rt_low <= Field(x, PEAK_LS_RT)
                 /\ Field(x, PEAK_LS_RT) <= istd_rt_high
                 /\ lower_limit <= Field(x, PEAK_LS_AREA)
                 /\ Field(x, PEAK_LS_AREA) <= upper_limit
              THEN << <<Field(x, PEAK_LS_RT), Field(x, PEAK_LS_AREA)>> >>
              ELSE <<>>)
             \o IstdPeakList(Tail(list), istd_rt_low, istd_rt_high, lower_limit, upper_limit)

\* Variant: no attempt to isolate a single peak, several candidates raise.
istd_area_without_isolation(peak_data_list, istd_rt, istd_rt_tolerance, istd_area_target, istd_area_tolerance) ==
    LET found == IstdPeakList(peak_data_list, istd_rt - istd_rt_tolerance,
                              istd_rt + istd_rt_tolerance,
                              istd_area_target - istd_area_tolerance,
                              istd_area_target + istd_area_tolerance)
    IN  IF Len(found) = 1 THEN Ok(found[1][2]) ELSE Raise("IstdError")

get_istd_area(peak_data_list, istd_rt, istd_rt_tolerance, istd_area_target, istd_area_tolerance) ==
    LET istd_rt_low  == istd_rt - istd_rt_tolerance
        istd_rt_high == istd_rt + istd_rt_tolerance
        lower_limit  == istd_area_target - istd_area_tolerance
        upper_limit  == istd_area_target + istd_area_tolerance
        found == IstdPeakList(peak_data_list, istd_rt_low, istd_rt_high, lower_limit, upper_limit)
        istd_relative_rt == RelativeRt(found, istd_rt)
        istd_peak_list ==
            IF Len(found) > 1 THEN <<min(istd_relative_rt, 0).val>> ELSE found
    IN  IF Len(istd_peak_list) = 0 THEN Raise("IstdError")
        ELSE IF Len(istd_peak_list) > 1 THEN Raise("IstdError")
        ELSE Ok(istd_peak_list[1][2])

\* ---------------------------------------------------------------- numbers
\* A quotient of the program is kept as an exact fraction in lowest terms.
RECURSIVE GCD(_, _)
GCD(a, b) == IF b = 0 THEN a ELSE GCD(b, a % b)

Frac(n, d) ==
    LET g  == GCD(Abs(n), Abs(d))
        sg == IF d < 0 THEN -1 ELSE 1
    IN  [tag |-> "num", num |-> sg * (n \div g), den |-> sg * (d \div g)]

None      == [tag |-> "None"]
Missing   == [tag |-> "missing"]      \* an attribute never assigned
IsNone(x) == x.tag = "None"

FAdd(a, b) == Frac(a.num * b.den + b.num * a.den, a.den * b.den)
FSub(a, b) == Frac(a.num * b.den - b.num * a.den, a.den * b.den)
FMul(a, b) == Frac(a.num * b.num, a.den * b.den)

\* Variant: a zero divisor yields 0 instead of raising.
DivZeroAsZero(a, b) ==
    IF IsNone(a) \/ IsNone(b) THEN Raise("TypeError")
    ELSE IF b.num = 0 THEN Ok(Frac(0, 1))
    ELSE Ok(Frac(a.num * b.den, a.den * b.num))

\* a / b on numbers: TypeError when an operand is None (checked before the
\* divisor is looked at), ZeroDivisionError when b is zero.
Div(a, b) ==
    IF IsNone(a) \/ IsNone(b) THEN Raise("TypeError")
    ELSE IF b.num = 0 THEN Raise("ZeroDivisionError")
    ELSE Ok(Frac(a.num * b.den, a.den * b.num))

RECURSIVE Pow10(_)
Pow10(n) == IF n = 0 THEN 1 ELSE 10 * Pow10(n - 1)

\* round(x, ndigits) rounds the float that holds x to the nearest multiple of
\* 10^-ndigits.  When x is exactly half way between two multiples the float
\* may lie on either side of the tie (0.015 is held below it) and the tie rule
\* is the interpreter's (half away from zero in Python 2, half to even in
\* Python 3): either neighbour can be returned.  round is the set of the
\* values the call can return.
round(x, ndigits) ==
    LET scale == Pow10(ndigits)
        sg    == IF x.num < 0 THEN -1 ELSE 1
        n     == Abs(x.num) * scale
        lo    == n \div x.den
        rem2  == 2 * (n % x.den)
    IN  IF rem2 < x.den THEN {Frac(sg * lo, scale)}
        ELSE IF rem2 > x.den THEN {Frac(sg * (lo + 1), scale)}
        ELSE {Frac(sg * lo, scale), Frac(sg * (lo + 1), scale)}

\* mean(list): sum(list) / len(list)
mean(list) == Div(Frac(sum(list), 1), Frac(Len(list), 1))

\* ------------------------------------------------------- BlankAverage.__init__
\* The locals one pass of the loop body computes from its blank run (the
\* indexes and sums of lines 60-84), in the order the body computes them.  exc
\* names the exception the pass raises, "none" when it completes; idx and sums
\* hold what was computed before the raise.
LoopLocals(blank, analysis_c6_c10) ==
    IF analysis_c6_c10 THEN
        LET i_c10 == get_fraction_end_index(blank, C6_C10_END)
        IN  IF ~IsOk(i_c10) THEN [exc |-> i_c10.tag, idx |-> <<>>, sums |-> <<>>]
            ELSE [exc |-> "none", idx |-> <<i_c10.val>>,
                  sums |-> <<sum_areas(blank, 0, i_c10.val)>>]
    ELSE
        LET i_c10 == get_fraction_start_index(blank, C10_C16_START)
            i_c16 == get_fraction_end_index(blank, C10_C16_END)
            i_c34 == get_fraction_end_index(blank, C16_C34_END)
            i_c40 == get_fraction_end_index(blank, C34_C40_END)
        IN  IF ~IsOk(i_c16) THEN
                [exc |-> i_c16.tag, idx |-> <<i_c10.val>>, sums |-> <<>>]
            ELSE IF ~IsOk(i_c34) THEN
                [exc |-> i_c34.tag, idx |-> <<i_c10.val, i_c16.val>>,
                 sums |-> <<sum_areas(blank, i_c10.val, i_c16.val)>>]
            ELSE IF ~IsOk(i_c40) THEN
                [exc |-> i_c40.tag, idx |-> <<i_c10.val, i_c16.val, i_c34.val>>,
                 sums |-> <<sum_areas(blank, i_c10.val, i_c16.val),
                            sum_areas(blank, i_c16.val, i_c34.val)>>]
            ELSE [exc |-> "none",
                  idx |-> <<i_c10.val, i_c16.val, i_c34.val, i_c40.val>>,
                  sums |-> <<sum_areas(blank, i_c10.val, i_c16.val),
                             sum_areas(blank, i_c16.val, i_c34.val),
                             sum_areas(blank, i_c34.val, i_c40.val),
                             sum_areas(blank, i_c10.val, i_c40.val)>>]

\* self before the loop: no attribute assigned yet.
NewSelf ==
    [area_c6_c10 |-> Missing, area_c10_c16 |-> Missing, area_c16_c34 |-> Missing,
     area_c34_c40 |-> Missing, area_c10_c40 |-> Missing, istd |-> Missing, area |-> Missing]

\* The frame of a constructor call at its for statement: the five empty
\* lists, and istds, the values of get_istd_area(x, ...) for the runs x looped
\* over so far, which line 91 collects after the loop.
NewFrame ==
    [pc |-> "loop", exc |-> "none", self |-> NewSelf,
     areas_c6_c10 |-> <<>>, areas_c10_c16 |-> <<>>, areas_c16_c34 |-> <<>>,
     areas_c34_c40 |-> <<>>, areas_c10_c40 |-> <<>>, istds |-> <<>>]

\* The appends of lines 64, 73, 77, 81 and 84: each sum the pass computed is
\* appended to its list as soon as it is computed, also when a later line of
\* the pass raises.
Appended(f, analysis_c6_c10, sums) ==
    IF analysis_c6_c10 THEN
        [f EXCEPT !.areas_c6_c10 = IF Len(sums) >= 1 THEN Append(@, sums[1]) ELSE @]
    ELSE
        [f EXCEPT !.areas_c10_c16 = IF Len(sums) >= 1 THEN Append(@, sums[1]) ELSE @,
                  !.areas_c16_c34 = IF Len(sums) >= 2 THEN Append(@, sums[2]) ELSE @,
                  !.areas_c34_c40 = IF Len(sums) >= 3 THEN Append(@, sums[3]) ELSE @,
                  !.areas_c10_c40 = IF Len(sums) >= 4 THEN Append(@, sums[4]) ELSE @]

\* The assignments of line 66, or of lines 86-89, at the end of a pass that
\* did not raise.
Averaged(g, analysis_c6_c10, istd) ==
    IF analysis_c6_c10 THEN
        [g EXCEPT !.self.area_c6_c10 = mean(g.areas_c6_c10).val,
                  !.istds = Append(@, istd)]
    ELSE
        [g EXCEPT !.self.area_c10_c16 = mean(g.areas_c10_c16).val,
                  !.self.area_c16_c34 = mean(g.areas_c16_c34).val,
                  !.self.area_c34_c40 = mean(g.areas_c34_c40).val,
                  !.self.area_c10_c40 = mean(g.areas_c10_c40).val,
                  !.istds = Append(@, istd)]

\* Variant: a run whose boundaries do not resolve is skipped, not fatal.
LoopBodySkippingBadRun(f, analysis_c6_c10, loc, istd) ==
    LET g == Appended(f, analysis_c6_c10, loc.sums)
    IN  IF loc.exc # "none" THEN g ELSE Averaged(g, analysis_c6_c10, istd)

\* One pass of the loop body (lines 59-89) on frame f, given the locals loc of
\* the pass and the run's get_istd_area result.
LoopBody(f, analysis_c6_c10, loc, istd) ==
    LET g == Appended(f, analysis_c6_c10, loc.sums)
    IN  IF loc.exc # "none" THEN [g EXCEPT !.pc = "raised", !.exc = loc.exc]
        ELSE Averaged(g, analysis_c6_c10, istd)

\* The first exception in a list of results, "none" when there is none.
RECURSIVE FirstRaised(_)
FirstRaised(results) ==
    IF results = <<>> THEN "none"
    ELSE IF ~IsOk(Head(results)) THEN Head(results).tag
    ELSE FirstRaised(Tail(results))

RECURSIVE Values(_)
Values(results) ==
    IF results = <<>> THEN <<>> ELSE <<Head(results).val>> \o Values(Tail(results))

\* Variant: line 92 initialises the slot to a number, self.area = 0.
AfterLoopAreaZero(f) ==
    LET raised == FirstRaised(f.istds)
        m      == mean(Values(f.istds))
    IN  IF raised # "none" THEN [f EXCEPT !.pc = "raised", !.exc = raised]
        ELSE IF ~IsOk(m) THEN [f EXCEPT !.pc = "raised", !.exc = m.tag]
        ELSE [f EXCEPT !.pc = "done", !.self.istd = m.val, !.self.area = Frac(0, 1)]

\* Lines 91-92, after the loop: the mean of the runs' ISTD areas, then
\* self.area = None.
AfterLoop(f) ==
    LET raised == FirstRaised(f.istds)
        m      == mean(Values(f.istds))
    IN  IF raised # "none" THEN [f EXCEPT !.pc = "raised", !.exc = raised]
        ELSE IF ~IsOk(m) THEN [f EXCEPT !.pc = "raised", !.exc = m.tag]
        ELSE [f EXCEPT !.pc = "done", !.self.istd = m.val, !.self.area = None]

\* The for statement of lines 59-89 over blank_data, from frame f on.
RECURSIVE Loop(_, _, _, _, _, _, _)
Loop(f, blank_data, analysis_c6_c10, istd_rt, istd_rt_tolerance, istd_area_target, istd_area_tolerance) ==
    IF blank_data = <<>> \/ f.pc # "loop" THEN f
    ELSE Loop(LoopBody(f, analysis_c6_c10, LoopLocals(Head(blank_data), analysis_c6_c10),
                       get_istd_area(Head(blank_data), istd_rt, istd_rt_tolerance,
                                     istd_area_target, istd_area_tolerance)),
              Tail(blank_data), analysis_c6_c10, istd_rt, istd_rt_tolerance,
              istd_area_target, istd_area_tolerance)

\* BlankAverage(blank_data, ...): the frame the constructor call ends in, pc
\* "done" with the object in self, or pc "raised" with the exception in exc.
BlankAverage(blank_data, analysis_c6_c10, istd_rt, istd_rt_tolerance, istd_area_target, istd_area_tolerance) ==
    LET f == Loop(NewFrame, blank_data, analysis_c6_c10, istd_rt, istd_rt_tolerance,
                  istd_area_target, istd_area_tolerance)
    IN  IF f.pc = "raised" THEN f ELSE AfterLoop(f)

\* ------------------------------------------- calculate_sample_concentration
\* Lines 116-125, given the locals of lines 113-114: area, and the result of
\* get_istd_area, whose exception propagates.  The outcomes the call can have:
\* one exception, or the values round can return.
\* Variant: the call takes the combined-fraction average of the object, not
\* the slot.
BlankCombinedArea(blank) ==
    IF blank.area_c10_c40 # Missing THEN blank.area_c10_c40 ELSE blank.area_c6_c10

\* blank.area, read once, at line 116.
BlankArea(blank) == blank.area

ConcentrationFrom(area, istd_result, blank, calibration_slope, calibration_intercept, istd_concentration, dilution_factor) ==
    IF ~IsOk(istd_result) THEN {istd_result}
    ELSE
    LET istd  == Frac(istd_result.val, 1)
        ratio == Div(BlankArea(blank), blank.istd)
    IN  IF ~IsOk(ratio) THEN {ratio}
        ELSE
        LET istd_blank_corrected == FMul(istd, ratio.val)
            area_blank_corrected == FSub(Frac(area, 1), istd_blank_corrected)
            response_ratio       == Div(area_blank_corrected, istd)
        IN  IF ~IsOk(response_ratio) THEN {response_ratio}
            ELSE
            LET concentration_ratio ==
                    Div(FSub(response_ratio.val, Frac(calibration_intercept, 1)),
                        Frac(calibration_slope, 1))
            IN  IF ~IsOk(concentration_ratio) THEN {concentration_ratio}
                ELSE
                LET concentration_vial   == FMul(concentration_ratio.val, Frac(istd_concentration, 1))
                    concentration_sample == FMul(concentration_vial, Frac(dilution_factor, 1))
                IN  {Ok(r) : r \in round(concentration_sample, DEF_DECIMAL_PLACES)}

calculate_sample_concentration(peak_data_list, blank, low_index, high_index, istd_rt, istd_rt_tolerance, istd_area_target, istd_area_tolerance, calibration_slope, calibration_intercept, istd_concentration, dilution_factor) ==
    LET area == sum_areas(peak_data_list, low_index, high_index)
        istd == get_istd_area(peak_data_list, istd_rt, istd_rt_tolerance,
                              istd_area_target, istd_area_tolerance)
    IN  ConcentrationFrom(area, istd, blank, calibration_slope, calibration_intercept,
                          istd_concentration, dilution_factor)

\* ------------------------------------------------------------------- inputs
\* A peak list of an instrument run as spec section 3 describes it: index =
\* 1-based position, apex times strictly ascending, start <= rt <= end.
PeakShapes == {t \in RTs \X RTs \X RTs \X Areas : t[1] <= t[2] /\ t[2] <= t[3]}

RECURSIVE PeakListsOfLen(_)
PeakListsOfLen(n) ==
    IF n = 0 THEN {<<>>}
    ELSE UNION { { Append(l, <<n, s[1], s[2], s[3], s[4]>>) :
                     s \in {t \in PeakShapes : n = 1 \/ t[2] > Field(l[n - 1], PEAK_LS_RT)} } :
                 l \in PeakListsOfLen(n - 1) }

PeakLists == UNION {PeakListsOfLen(n) : n \in 0..MaxPeaks}

\* peak_data as get_data_from_report returns it (lines 196-203): the rows of
\* the sheet as they stand, the index int(peak column), nothing sorted or
\* checked.  Every list of at most two such rows, and every longer list of an
\* instrument run.
Indexes  == 1..2
Rows     == Indexes \X RTs \X RTs \X RTs \X Areas
RowLists == {<<>>} \cup {<<r>> : r \in Rows} \cup {<<r, q>> : r \in Rows, q \in Rows}
Reports  == RowLists \cup PeakLists

\* istd_rt, istd_rt_tolerance, istd_area_target, istd_area_tolerance
IstdParams == RTs \X Tols \X Areas \X Tols

\* The ISTD parameters a batch is processed with: the standard elutes at the
\* C10-C16 cutoff, give or take one step of the grid.
BatchIstdParams == {ip \in IstdParams : ip[1] = C10_C16_END /\ ip[2] = 1}

\* ------------------------------------------------ what a handler reads of a run
HasEndAtOrAfter(pl, t) == \E i \in 1..Len(pl) : Field(pl[i], PEAK_LS_END) >= t

HasIstdCandidate(pl, ip) ==
    \E i \in 1..Len(pl) :
        /\ ip[1] - ip[2] <= Field(pl[i], PEAK_LS_RT) /\ Field(pl[i], PEAK_LS_RT) <= ip[1] + ip[2]
        /\ ip[3] - ip[4] <= Field(pl[i], PEAK_LS_AREA) /\ Field(pl[i], PEAK_LS_AREA) <= ip[3] + ip[4]

\* The invariants of spec section 3 on a peak list.
IsPeakList(pl) ==
    \A i \in 1..Len(pl) :
        /\ Field(pl[i], PEAK_LS_IDX) = i
        /\ Field(pl[i], PEAK_LS_START) <= Field(pl[i], PEAK_LS_RT)
        /\ Field(pl[i], PEAK_LS_RT) <= Field(pl[i], PEAK_LS_END)
        /\ i > 1 => Field(pl[i - 1], PEAK_LS_RT) < Field(pl[i], PEAK_LS_RT)

RequiredEnds(analysis_c6_c10) ==
    IF analysis_c6_c10 THEN {C6_C10_END} ELSE {C10_C16_END, C16_C34_END, C34_C40_END}

\* The constructor reads a blank run only through the locals of its loop body
\* and the run's get_istd_area result; lacks_end, lacks_istd and conforms
\* record, for the claims, what the run itself is.  BlankRuns holds one entry
\* per mode, ISTD parameters and distinct reading, over every report.
BlankRun(pl, loc, analysis_c6_c10, ip) ==
    [loc   |-> loc,
     istd  |-> get_istd_area(pl, ip[1], ip[2], ip[3], ip[4]),
     lacks_end  |-> \E t \in RequiredEnds(analysis_c6_c10) : ~HasEndAtOrAfter(pl, t),
     lacks_istd |-> ~HasIstdCandidate(pl, ip),
     conforms   |-> IsPeakList(pl)]

BlankRunsOf(pl, analysis_c6_c10) ==
    LET loc == LoopLocals(pl, analysis_c6_c10)
    IN  {[analysis_c6_c10 |-> analysis_c6_c10, ip |-> ip,
          run |-> BlankRun(pl, loc, analysis_c6_c10, ip)] : ip \in BatchIstdParams}

BlankRuns ==
    UNION {BlankRunsOf(pl, analysis_c6_c10) : analysis_c6_c10 \in BOOLEAN, pl \in Reports}

\* calculate_sample_concentration reads its sample only through the locals of
\* lines 113-114: one entry per distinct reading, over every report and
\* every pair of indices.
SampleAreas(pl) ==
    {sum_areas(pl, low_index, high_index) :
        low_index \in 0..MaxPeaks, high_index \in 0..MaxPeaks}

SampleLocalsOf(pl) ==
    {[ip |-> ip, area |-> a, istd |-> get_istd_area(pl, ip[1], ip[2], ip[3], ip[4])] :
        ip \in BatchIstdParams, a \in SampleAreas(pl)}

SampleLocals == UNION {SampleLocalsOf(pl) : pl \in Reports}

\* Calibration slopes: 0, 1, and two that make the quotient of line 120 need
\* rounding (3) and fall half way between two hundredths (8).
Slopes     == {0, 1, 3, 8}
Intercepts == 0..1
Dilutions  == 1..2

\* -------------------------------------------------------------------- state
VARIABLES
    peak_data,   \* the peak list of the run at hand
    ret,              \* the last call of an engine function: op, args, out
    params,           \* the constructor's arguments: analysis_c6_c10 and the ISTD parameters
    ctor,             \* the frame of the BlankAverage constructor call
    blank_average,    \* the BlankAverage object the constructor returned
    hist,             \* what the blank runs looped over lacked (for the claims)
    share             \* two callers of one BlankAverage: mode, lock, caller frames

vars == <<peak_data, ret, params, ctor, blank_average, hist, share>>

NoCall   == [op |-> "none", args |-> <<>>, out |-> Raise("none")]
NoParams == [analysis_c6_c10 |-> FALSE, ip |-> <<0, 0, 0, 0>>]
NoFrame  == [NewFrame EXCEPT !.pc = "none"]
NoHist   == [n |-> 0, bad_at |-> 0, unordered |-> FALSE, conforming |-> TRUE]
NoShare  == [sync |-> FALSE, lock |-> 0, callers |-> <<>>]

\* --------------------------------------------- specification of the functions
InitFn ==
    /\ peak_data \in Reports
    /\ ret = NoCall
    /\ params = NoParams
    /\ ctor = NoFrame
    /\ blank_average = Missing
    /\ hist = NoHist
    /\ share = NoShare

CallEndIndex ==
    \E rt_end \in RTs :
        /\ ret = NoCall
        /\ ret' = [op |-> "get_fraction_end_index", args |-> <<rt_end>>,
                   out |-> get_fraction_end_index(peak_data, rt_end)]
        /\ UNCHANGED <<peak_data, params, ctor, blank_average, hist, share>>

CallStartIndex ==
    \E rt_start \in RTs :
        /\ ret = NoCall
        /\ ret' = [op |-> "get_fraction_start_index", args |-> <<rt_start>>,
                   out |-> get_fraction_start_index(peak_data, rt_start)]
        /\ UNCHANGED <<peak_data, params, ctor, blank_average, hist, share>>

CallIstdArea ==
    \E ip \in IstdParams :
        /\ ret = NoCall
        /\ ret' = [op |-> "get_istd_area", args |-> ip,
                   out |-> get_istd_area(peak_data, ip[1], ip[2], ip[3], ip[4])]
        /\ UNCHANGED <<peak_data, params, ctor, blank_average, hist, share>>

CallSumAreas ==
    \E low_index \in 0..MaxPeaks, high_index \in 0..MaxPeaks :
        /\ ret = NoCall
        /\ ret' = [op |-> "sum_areas", args |-> <<low_index, high_index>>,
                   out |-> Ok(sum_areas(peak_data, low_index, high_index))]
        /\ UNCHANGED <<peak_data, params, ctor, blank_average, hist, share>>

NextFn == CallEndIndex \/ CallStartIndex \/ CallIstdArea \/ CallSumAreas

SpecFn == InitFn /\ [][NextFn]_vars

\* ------------------------------------ specification of a constructor call
\* BlankAverage(blank_data, ...) is called on a batch of at most MaxRuns blank
\* runs.
InitBatch ==
    /\ peak_data = <<>>
    /\ ret = NoCall
    /\ params \in [analysis_c6_c10 : BOOLEAN, ip : BatchIstdParams]
    /\ ctor = NewFrame
    /\ blank_average = Missing
    /\ hist = NoHist
    /\ share = NoShare

Ordered(idx) == \A i \in 1..(Len(idx) - 1) : idx[i] <= idx[i + 1]

\* for blank in blank_data: one more run, and the body runs on it.
LoopIteration ==
    /\ ctor.pc = "loop"
    /\ Len(ctor.istds) < MaxRuns
    /\ \E b \in BlankRuns :
        /\ b.analysis_c6_c10 = params.analysis_c6_c10
        /\ b.ip = params.ip
        /\ ctor' = LoopBody(ctor, params.analysis_c6_c10, b.run.loc, b.run.istd)
        /\ hist' = [n |-> hist.n + 1,
                    bad_at |-> IF hist.bad_at = 0 /\ (b.run.lacks_end \/ b.run.lacks_istd)
                               THEN hist.n + 1 ELSE hist.bad_at,
                    unordered |-> hist.unordered \/ ~Ordered(b.run.loc.idx),
                    conforming |-> hist.conforming /\ b.run.conforms]
    /\ UNCHANGED <<peak_data, ret, params, blank_average, share>>

\* blank_data is exhausted: lines 91-92, and the constructor returns self.
LoopExit ==
    /\ ctor.pc = "loop"
    /\ ctor' = AfterLoop(ctor)
    /\ blank_average' = IF ctor'.pc = "done" THEN ctor'.self ELSE blank_average
    /\ UNCHANGED <<peak_data, ret, params, hist, share>>

NextBatch == LoopIteration \/ LoopExit

SpecBatch == InitBatch /\ [][NextBatch]_vars

\* ------------------- specification of a call on a constructed BlankAverage
\* The frames BlankAverage(blank_data, ...) ends in on a batch of one run, per
\* mode and ISTD parameters: one pass of the loop on the run, then lines 91-92.
FrameOfRun(analysis_c6_c10, run) ==
    LET f == LoopBody(NewFrame, analysis_c6_c10, run.loc, run.istd)
    IN  IF f.pc = "raised" THEN f ELSE AfterLoop(f)

Constructed ==
    {[analysis_c6_c10 |-> b.analysis_c6_c10, ip |-> b.ip,
      frame |-> FrameOfRun(b.analysis_c6_c10, b.run)] : b \in BlankRuns}

\* A constructor call has returned its object.
InitCalc ==
    \E k \in Constructed :
        /\ k.frame.pc = "done"
        /\ peak_data = <<>>
        /\ ret = NoCall
        /\ params = [analysis_c6_c10 |-> k.analysis_c6_c10, ip |-> k.ip]
        /\ ctor = k.frame
        /\ blank_average = k.frame.self
        /\ hist = NoHist
        /\ share = NoShare

\* The attributes of a BlankAverage that hold a fraction average.
FractionFields(b) ==
    {v \in {b.area_c6_c10, b.area_c10_c16, b.area_c16_c34, b.area_c34_c40, b.area_c10_c40} :
        v # Missing}

\* The caller sets blank.area to the average of the fraction it is about to
\* quantify (spec section 3).
CallerAssign ==
    /\ ret = NoCall
    /\ IsNone(blank_average.area)
    /\ \E v \in FractionFields(blank_average) : blank_average' = [blank_average EXCEPT !.area = v]
    /\ UNCHANGED <<peak_data, ret, params, ctor, hist, share>>

\* calculate_sample_concentration(sample, blank, ...) is called once.
Calculate ==
    /\ ret = NoCall
    /\ \E s \in SampleLocals, calibration_slope \in Slopes,
          calibration_intercept \in Intercepts, dilution_factor \in Dilutions :
        /\ s.ip = params.ip
        /\ \E out \in ConcentrationFrom(s.area, s.istd, blank_average, calibration_slope,
                                        calibration_intercept, 1, dilution_factor) :
           ret' = [op |-> "calculate_sample_concentration",
                   args |-> <<s.area, s.istd, calibration_slope, calibration_intercept, 1,
                              dilution_factor>>,
                   out |-> out]
    /\ UNCHANGED <<peak_data, params, ctor, blank_average, hist, share>>

NextCalc == CallerAssign \/ Calculate

SpecCalc == InitCalc /\ [][NextCalc]_vars

\* ------------------------- specification of two callers of one BlankAverage
Callers == 1..2

\* One constructed BlankAverage is shared by two callers, each about to
\* quantify a fraction of its own (own: that fraction's average).  sync tells
\* whether the callers guard their assign-then-compute pair with a lock.
InitShare ==
    \E k \in Constructed, sync \in BOOLEAN :
        /\ k.frame.pc = "done"
        /\ peak_data = <<>>
        /\ ret = NoCall
        /\ params = [analysis_c6_c10 |-> k.analysis_c6_c10, ip |-> k.ip]
        /\ ctor = k.frame
        /\ blank_average = k.frame.self
        /\ hist = NoHist
        /\ \E own \in [Callers -> FractionFields(k.frame.self)] :
              share = [sync |-> sync, lock |-> 0,
                       callers |-> [c \in Callers |->
                                      [pc |-> "assign", own |-> own[c], seen |-> Missing,
                                       args |-> <<>>, out |-> Raise("none")]]]

\* Caller c sets blank.area to the average of its fraction.
ShareAssign(c) ==
    /\ share.callers[c].pc = "assign"
    /\ share.sync => share.lock = 0
    /\ blank_average' = [blank_average EXCEPT !.area = share.callers[c].own]
    /\ share' = [share EXCEPT !.lock = IF share.sync THEN c ELSE 0,
                              !.callers[c].pc = "call"]
    /\ UNCHANGED <<peak_data, ret, params, ctor, hist>>

\* Caller c calls calculate_sample_concentration(sample, blank, ...); seen is
\* the value the call reads from blank.area.
ShareCalculate(c) ==
    /\ share.callers[c].pc = "call"
    /\ share.sync => share.lock = c
    /\ \E s \in SampleLocals :
        /\ s.ip = params.ip
        /\ \E out \in ConcentrationFrom(s.area, s.istd, blank_average, 1, 0, 1, 1) :
           share' = [share EXCEPT
                        !.lock = 0,
                        !.callers[c] =
                            [pc |-> "done", own |-> @.own,
                             seen |-> BlankArea(blank_average),
                             args |-> <<s.area, s.istd>>,
                             out |-> out]]
    /\ UNCHANGED <<peak_data, ret, params, ctor, blank_average, hist>>

NextShare == \E c \in Callers : ShareAssign(c) \/ ShareCalculate(c)

SpecShare == InitShare /\ [][NextShare]_vars

\* ----------------------------------------------------- claims on the functions
Called(op) == ret.op = op
Peak(i)    == peak_data[i]
Positions  == 1..Len(peak_data)

EndRt(i)   == Field(Peak(i), PEAK_LS_END)
StartRt(i) == Field(Peak(i), PEAK_LS_START)
ApexRt(i)  == Field(Peak(i), PEAK_LS_RT)
AreaAt(i)  == Field(Peak(i), PEAK_LS_AREA)
IdxAt(i)   == Field(Peak(i), PEAK_LS_IDX)

EndsAtOrAfter(t)    == {i \in Positions : EndRt(i) >= t}
StartsAtOrBefore(t) == {i \in Positions : StartRt(i) <= t}

\* C1: when some peak ends at or after rt_end, get_fraction_end_index returns
\* the index of a peak that ends at or after rt_end and no later than any other
\* such peak.
C1_EndIndexIsNearestFromAbove ==
    Called("get_fraction_end_index") =>
        LET rt_end == ret.args[1]
            S      == EndsAtOrAfter(rt_end)
        IN  S # {} =>
              /\ IsOk(ret.out)
              /\ \E i \in S :
                    /\ IdxAt(i) = ret.out.val
                    /\ \A j \in S : EndRt(j) - rt_end >= EndRt(i) - rt_end

\* Two peaks end at or after the target and the later one in the list ends
\* sooner, so the first qualifying peak is not the answer.
C1_Witness ==
    /\ Called("get_fraction_end_index")
    /\ Len(peak_data) = 2
    /\ EndsAtOrAfter(ret.args[1]) = {1, 2}
    /\ EndRt(2) < EndRt(1)
    /\ ret.out = Ok(2)

\* C2: get_fraction_start_index never fails; it returns 1 when no peak starts
\* at or before rt_start, and otherwise the index of a peak starting at or
\* before rt_start whose start is nearest to it.
C2_StartIndexNearestFromBelowOrOne ==
    Called("get_fraction_start_index") =>
        LET rt_start == ret.args[1]
            S        == StartsAtOrBefore(rt_start)
        IN  /\ IsOk(ret.out)
            /\ S = {} => ret.out.val = 1
            /\ S # {} =>
                 \E i \in S :
                    /\ IdxAt(i) = ret.out.val
                    /\ \A j \in S : Abs(StartRt(j) - rt_start) >= Abs(StartRt(i) - rt_start)

\* A non-empty list whose every peak starts after the target: the fallback.
C2_Witness ==
    /\ Called("get_fraction_start_index")
    /\ Len(peak_data) = 2
    /\ StartsAtOrBefore(ret.args[1]) = {}
    /\ ret.out = Ok(1)

IstdCandidates(ip) ==
    {i \in Positions : /\ ip[1] - ip[2] <= ApexRt(i) /\ ApexRt(i) <= ip[1] + ip[2]
                       /\ ip[3] - ip[4] <= AreaAt(i) /\ AreaAt(i) <= ip[3] + ip[4]}

\* C3: the candidates of get_istd_area are the peaks inside both windows; one
\* candidate: its area; several: the area of a candidate nearest the nominal
\* retention time, without error; none: IstdError and no value.
C3_IstdLocatedInBothWindows ==
    Called("get_istd_area") =>
        LET ip == ret.args
            S  == IstdCandidates(ip)
        IN  /\ S = {} => ret.out = Raise("IstdError")
            /\ Cardinality(S) = 1 => \E i \in S : ret.out = Ok(AreaAt(i))
            /\ Cardinality(S) > 1 =>
                 \E i \in S :
                    /\ ret.out = Ok(AreaAt(i))
                    /\ \A j \in S : Abs(ApexRt(j) - ip[1]) >= Abs(ApexRt(i) - ip[1])

\* Two candidates of different area, the second nearer to the nominal time.
C3_Witness ==
    /\ Called("get_istd_area")
    /\ IstdCandidates(ret.args) = {1, 2}
    /\ AreaAt(1) # AreaAt(2)
    /\ Abs(ApexRt(2) - ret.args[1]) < Abs(ApexRt(1) - ret.args[1])
    /\ ret.out = Ok(AreaAt(2))

\* C5: when no peak ends at or after rt_end, get_fraction_end_index raises and
\* returns no index.
C5_EndIndexFailsWithoutPeak ==
    Called("get_fraction_end_index") =>
        (EndsAtOrAfter(ret.args[1]) = {} => ret.out = Raise("ValueError"))

\* A non-empty list all of whose peaks end before the target.
C5_Witness ==
    /\ Called("get_fraction_end_index")
    /\ Len(peak_data) = 2
    /\ EndsAtOrAfter(ret.args[1]) = {}
    /\ ~IsOk(ret.out)

\* The areas at 0-based positions i .. j-1, added one by one.
RECURSIVE AreaOfPositions(_, _, _)
AreaOfPositions(peaks, i, j) ==
    IF i >= j THEN 0 ELSE Field(peaks[i + 1], PEAK_LS_AREA) + AreaOfPositions(peaks, i + 1, j)

\* The fixture of spec section 8, retention times in half minutes (the
\* tolerance 0.5 min is 1): [(1,0,1,2,1000),(2,2,3,4,5000),(3,4,5,6,2000)].
Fixture == << <<1, 0, 2, 4, 1000>>, <<2, 4, 6, 8, 5000>>, <<3, 8, 10, 12, 2000>> >>

\* C8: for 0 <= i <= j <= len, sum_areas(peaks, i, j) is the sum of the areas
\* at 0-based positions i .. j-1; on the fixture the end index for rt_end = 3
\* is 2, sum_areas(peaks, 0, 2) = 6000 and the ISTD area for 3 +/- 0.5 and
\* 5000 +/- 500 is 5000.
C8_SumAreasHalfOpen ==
    /\ Called("sum_areas") =>
         LET i == ret.args[1]
             j == ret.args[2]
         IN  (i <= j /\ j <= Len(peak_data)) =>
                ret.out = Ok(AreaOfPositions(peak_data, i, j))
    /\ get_fraction_end_index(Fixture, 6) = Ok(2)
    /\ sum_areas(Fixture, 0, 2) = 6000
    /\ get_istd_area(Fixture, 6, 1, 5000, 500) = Ok(5000)

\* A sum over one position whose right neighbour, left out, has a non-zero area.
C8_Witness ==
    /\ Called("sum_areas")
    /\ ret.args = <<0, 1>>
    /\ Len(peak_data) = 2
    /\ AreaAt(1) = 1 /\ AreaAt(2) = 1
    /\ ret.out = Ok(1)

\* ------------------------------------- claims on the batch and on the call
Calculating  == "calculate_sample_concentration"
FullMode     == ~params.analysis_c6_c10

\* C4: a BlankAverage built in full TRH mode from a non-empty batch of peak
\* lists satisfying the invariants of spec section 3, whose boundaries and
\* ISTD peaks all resolve, has area_c10_c40 equal to
\* area_c10_c16 + area_c16_c34 + area_c34_c40.
C4_CombinedEqualsSumOfFractions ==
    (ctor.pc = "done" /\ FullMode /\ hist.conforming) =>
        blank_average.area_c10_c40 =
            FAdd(FAdd(blank_average.area_c10_c16, blank_average.area_c16_c34),
                 blank_average.area_c34_c40)

\* C6: a constructor call that looped over a run lacking a peak at or after a
\* required end cutoff, or lacking an acceptable ISTD peak, at whatever
\* position, ends by raising ValueError or IstdError, and a call that raises
\* produces no BlankAverage.
C6_BadRunFailsConstruction ==
    /\ (ctor.pc # "loop" /\ hist.bad_at # 0) =>
           (ctor.pc = "raised" /\ ctor.exc \in {"ValueError", "IstdError"})
    /\ ctor.pc # "done" => blank_average = Missing

\* A good run was averaged, the second run has no acceptable ISTD peak, and
\* the call raised without producing an object.
C6_Witness ==
    /\ ctor.pc = "raised"
    /\ ctor.exc = "IstdError"
    /\ hist.bad_at = 2
    /\ Len(ctor.istds) >= 2
    /\ blank_average = Missing

\* C7: a call of calculate_sample_concentration whose sample ISTD area is 0,
\* whose calibration_slope is 0, or whose blank.istd is 0 raises and returns
\* no number; the error is a ZeroDivisionError when blank.area is a number and
\* the sample has an ISTD peak.
C7_ZeroDivisorRaises ==
    (/\ Called(Calculating)
     /\ \/ ret.args[2] = Ok(0)
        \/ ret.args[3] = 0
        \/ blank_average.istd.num = 0) =>
        /\ ~IsOk(ret.out)
        /\ (~IsNone(blank_average.area) /\ IsOk(ret.args[2])) =>
               ret.out = Raise("ZeroDivisionError")

\* blank.area is assigned, the blank and sample ISTD areas are not 0, the
\* slope is 0, and the call raised.
C7_Witness ==
    /\ Called(Calculating)
    /\ ~IsNone(blank_average.area)
    /\ blank_average.istd.num # 0
    /\ ret.args[2] = Ok(1)
    /\ ret.args[3] = 0
    /\ ret.out = Raise("ZeroDivisionError")

\* C10: the object a constructor call returns has area None, in both modes;
\* afterwards the slot holds None or the fraction average the caller put
\* there, and a call of calculate_sample_concentration made while it is None
\* raises.
C10_AreaUnsetUntilCallerAssigns ==
    /\ IsNone(ctor.self.area)
    /\ IsNone(blank_average.area) \/ blank_average.area \in FractionFields(blank_average)
    /\ (Called(Calculating) /\ IsNone(blank_average.area)) =>
        ret.out \in {Raise("TypeError"), Raise("IstdError")}

\* A call on a freshly constructed C6-C10 object, sample ISTD found: TypeError.
C10_Witness ==
    /\ Called(Calculating)
    /\ params.analysis_c6_c10
    /\ IsNone(blank_average.area)
    /\ IsOk(ret.args[2])
    /\ ret.out = Raise("TypeError")

\* ------------------------------------------------ claims on the shared object
Caller(c)    == share.callers[c]
Returned(c)  == Caller(c).pc = "done"

\* C9: when each caller's assign-then-compute pair runs under the lock, every
\* call reads from blank.area the area its own caller assigned.
C9_AtomicPairsReadOwnArea ==
    share.sync => \A c \in Callers : Returned(c) => Caller(c).seen = Caller(c).own

\* C9, the race: without the lock, a call read the area the other caller
\* assigned and returned a concentration other than the one its own area gives.
C9_Witness ==
    /\ ~share.sync
    /\ \E c \in Callers, d \in Callers :
        /\ c # d
        /\ Returned(c)
        /\ Caller(c).seen # Caller(c).own
        /\ Caller(c).seen = Caller(d).own
        /\ IsOk(Caller(c).out)
        /\ Caller(c).out \notin
               ConcentrationFrom(Caller(c).args[1], Caller(c).args[2],
                                 [blank_average EXCEPT !.area = Caller(c).own], 1, 0, 1, 1)

====
